---------------------------- MODULE Spec2Model ----------------------------
(***************************************************************************)
(* A model of the REST API TAF helper: the MCP tools of                    *)
(* rest_api_taf_helper.py working on one shared AppContext, the output     *)
(* post-processing of generate_dto_prompt, and the schema lookup of        *)
(* src/github_utils.py (read_nested_json_section, get_service_schemas).    *)
(*                                                                         *)
(* Texts are sequences of one-character strings, so that Python's          *)
(* substring test ("export" in text), strip() and rstrip() are computed    *)
(* on characters and not on tokens.                                        *)
(***************************************************************************)
EXTENDS Naturals, Sequences, FiniteSets, TLC

\* ------------------------------------------------------------------ bounds

\* A generated text is the concatenation of at most MaxFrags fragments.
MaxFrags == 3
\* A section path has at most MaxPath keys.
MaxPath == 3

\* ------------------------------------------------------------------- texts

KwExport == <<"e", "x", "p", "o", "r", "t">>
KwInterface == <<"i", "n", "t", "e", "r", "f", "a", "c", "e">>
KwEnum == <<"e", "n", "u", "m">>
KwType == <<"t", "y", "p", "e">>
KwClass == <<"c", "l", "a", "s", "s">>
OpenBrace == <<"{">>

\* f"export {generated_dto}"
ExportPrefix == <<"e", "x", "p", "o", "r", "t", " ">>
\* f"// Warning: This might not be valid TypeScript\n{generated_dto}"
InvalidComment == <<"/", "/", " ", "W", "a", "r", "n", "i", "n", "g", ":", " ", "T", "h", "i", "s", " ", "m", "i", "g", "h", "t", " ", "n", "o", "t", " ", "b", "e", " ", "v", "a", "l", "i", "d", " ", "T", "y", "p", "e", "S", "c", "r", "i", "p", "t", "\n">>
\* f"// Warning: Empty content for {schema_name}\nexport interface {schema_name} {{}}"
EmptyComment == <<"/", "/", " ", "W", "a", "r", "n", "i", "n", "g", ":", " ", "E", "m", "p", "t", "y", " ", "c", "o", "n", "t", "e", "n", "t", " ", "f", "o", "r", " ">>
EmptyDecl == <<"\n", "e", "x", "p", "o", "r", "t", " ", "i", "n", "t", "e", "r", "f", "a", "c", "e", " ">>
\* f"{generated_dto.rstrip()} {{}}"
BracePair == <<" ", "{", "}">>

\* The characters str.strip() and str.rstrip() remove (the ASCII ones that
\* the fragments below can produce).
Whitespace == {" ", "\t", "\n", "\r"}

\* Python's `sub in s` on strings.
Contains(s, sub) ==
  \E i \in 0..Len(s) :
    /\ i + Len(sub) <= Len(s)
    /\ SubSeq(s, i + 1, i + Len(sub)) = sub

MaxOf(S) == CHOOSE m \in S : \A k \in S : k <= m
MinOf(S) == CHOOSE m \in S : \A k \in S : m <= k

\* s.rstrip()
RStrip(s) ==
  LET solid == {i \in 1..Len(s) : s[i] \notin Whitespace}
  IN IF solid = {} THEN <<>> ELSE SubSeq(s, 1, MaxOf(solid))

\* s.strip()
Strip(s) ==
  LET solid == {i \in 1..Len(s) : s[i] \notin Whitespace}
  IN IF solid = {} THEN <<>> ELSE SubSeq(s, MinOf(solid), MaxOf(solid))

\* Schema names (the keys of a schemas object) with their spelling.
SchemaNames == {"Pet", "Tag", "Order"}
Spelling(name) ==
  CASE name = "Pet" -> <<"P", "e", "t">>
    [] name = "Tag" -> <<"T", "a", "g">>
    [] name = "Order" -> <<"O", "r", "d", "e", "r">>

\* The pieces the generation backend's answers are made of: the keywords,
\* halves of a keyword, a brace, whitespace and filler.
Fragments ==
  { KwExport, <<"e", "x">>, <<"p", "o", "r", "t">>, KwInterface, KwType,
    KwEnum, KwClass, OpenBrace, <<" ">>, <<"\n">>, <<"x">> }

RECURSIVE TextsOf(_)
TextsOf(n) ==
  IF n = 0 THEN {<<>>}
  ELSE LET shorter == TextsOf(n - 1)
       IN shorter \cup {t \o f : t \in shorter, f \in Fragments}

\* What ctx.generate(prompt) may answer.
GeneratedTexts == TextsOf(MaxFrags)

\* -------------------------------------------------------------------- JSON

\* An Optional value: None is <<>>, a value v is <<v>>.
None == <<>>
Some(v) == <<v>>

\* A parsed JSON value is a tree: a function from the key paths present in
\* it to the kind of value there; <<>> is the root.  Only an "obj" node (a
\* dict) has children; an "obj" without children is {}.  The scalar kinds
\* are null, "" (estr), a non-empty string (str), 0 (zero), [] (earr) and a
\* non-empty list (arr).
ScalarKinds == {"null", "estr", "str", "zero", "earr", "arr"}

Leaf(kind) == (<<>> :> kind)
EmptyObject == Leaf("obj")

\* The dict with the given members; a member mapped to Absent is left out.
Absent == <<>>
ObjectOf(kids) ==
  [p \in {<<>>} \cup UNION {{<<k>> \o q : q \in DOMAIN kids[k]} : k \in DOMAIN kids}
     |-> IF p = <<>> THEN "obj" ELSE kids[Head(p)][Tail(p)]]

\* The value at path p of doc (p is present in doc).
Sub(doc, p) ==
  LET below == {x \in DOMAIN doc : Len(x) >= Len(p) /\ SubSeq(x, 1, Len(p)) = p}
  IN [q \in {SubSeq(x, Len(p) + 1, Len(x)) : x \in below} |-> doc[p \o q]]

\* Python's `not value` on a JSON value.
Falsy(v) ==
  \/ v[<<>>] \in {"null", "estr", "zero", "earr"}
  \/ v[<<>>] = "obj" /\ DOMAIN v = {<<>>}

\* The contract documents a repository may hold.
SectionValues ==
  {Leaf(k) : k \in ScalarKinds} \cup
  {EmptyObject, ObjectOf([Pet |-> EmptyObject])}

ComponentsValues ==
  {Leaf(k) : k \in ScalarKinds} \cup
  {ObjectOf([schemas |-> s]) : s \in SectionValues \cup {Absent}}

Documents ==
  {Leaf(k) : k \in ScalarKinds} \cup
  {ObjectOf([components |-> c, definitions |-> d]) :
     c \in ComponentsValues \cup {Absent}, d \in SectionValues \cup {Absent}}

Keys == {"components", "schemas", "definitions", "Pet"}

RECURSIVE PathsOf(_)
PathsOf(n) ==
  IF n = 0 THEN {<<>>}
  ELSE LET shorter == PathsOf(n - 1)
       IN shorter \cup {p \o <<k>> : p \in shorter, k \in Keys}

SectionPaths == PathsOf(MaxPath)

\* ------------------------------------------------------ src/github_utils.py

Services == {"petstore", "orders"}

\* f"serviceContracts/{service_name}.json"
ContractPath(service) == <<"serviceContracts/", service, ".json">>

\* What the repository answers for a file: its decoded JSON, or one of the
\* failures of get_contents, b64decode/decode and json.loads.
FileStates ==
  {[st |-> "file", doc |-> d] : d \in Documents} \cup
  {[st |-> f, doc |-> Leaf("null")] : f \in {"not_found", "directory", "bad_json"}}

\* The environment of a call: GITHUB_TOKEN set or not, and the repository,
\* which holds the contract of petstore and no other file.
Remotes ==
  {[token |-> TRUE, file |-> f] : f \in FileStates} \cup
  {[token |-> FALSE, file |-> [st |-> "not_found", doc |-> Leaf("null")]]}

Fetch(env, file_path) ==
  IF file_path = ContractPath("petstore")
  THEN env.file
  ELSE [st |-> "not_found", doc |-> Leaf("null")]

NoError == [exc |-> "", cause |-> "", key |-> "", at |-> 0,
            section_path |-> <<>>, file_path |-> <<>>]

\* The outcome of a call: the value returned, or the exception raised.  Its
\* message quotes the key, the section path and the file path; `at` is the
\* turn of the loop that raised, which tells apart two equal keys of a path.
Returned(value) == [ok |-> TRUE, value |-> value, error |-> NoError]
Raised(exc, cause, key, at, section_path, file_path) ==
  [ok |-> FALSE, value |-> Leaf("null"),
   error |-> [exc |-> exc, cause |-> cause, key |-> key, at |-> at,
              section_path |-> section_path, file_path |-> file_path]]

\* Mutant of IsNone: `not current_section`, which also rejects an empty value.
IsNoneOrEmpty(doc, p) ==
  p \notin DOMAIN doc \/ doc[p] = "null" \/ Falsy(Sub(doc, p))

\* `current_section is None` after current_section.get(key): the key is
\* absent or its value is null.
IsNone(doc, p) == p \notin DOMAIN doc \/ doc[p] = "null"

\* The loop over section_path from its i-th key on; SubSeq(section_path, 1,
\* i - 1) has been consumed and leads to current_section.  The exceptions of
\* the loop reach the caller wrapped in a GitHubJsonReaderError that quotes
\* their message.
RECURSIVE Navigate(_, _, _, _)
Navigate(doc, section_path, file_path, i) ==
  LET current == SubSeq(section_path, 1, i - 1)
      key == section_path[i]
  IN IF i > Len(section_path) THEN Returned(Sub(doc, current))
     ELSE IF doc[current] # "obj"
     THEN Raised("GitHubJsonReaderError", "not_a_dictionary", key, i,
                 section_path, file_path)
     ELSE IF IsNone(doc, Append(current, key))
     THEN Raised("GitHubJsonReaderError", "section_not_found", key, i,
                 section_path, file_path)
     ELSE Navigate(doc, section_path, file_path, i + 1)

\* read_nested_json_section(owner, repo, file_path, section_path)
read_nested_json_section(env, file_path, section_path) ==
  IF ~env.token
  THEN Raised("ValueError", "no_token", "", 0, <<>>, <<>>)
  ELSE LET f == Fetch(env, file_path)
       IN IF f.st # "file"
          THEN Raised("GitHubJsonReaderError", f.st, "", 0, section_path, file_path)
          ELSE Navigate(f.doc, section_path, file_path, 1)

\* The label of an attempt, as in the messages of lines 82 and 88.
Diagnostic(service, label, r) ==
  [file |-> ContractPath(service), section |-> label, error |-> r.error]

\* Mutant of get_service_schemas: the two conventions tried in the other
\* order, definitions first.
get_service_schemas_definitions_first(env, service) ==
  LET file_path == ContractPath(service)
      r1 == read_nested_json_section(env, file_path, <<"definitions">>)
      schema1 == IF r1.ok THEN r1.value ELSE Leaf("estr")
      error1 == IF r1.ok THEN None
                ELSE Some(Diagnostic(service, "definitions", r1))
      second == Falsy(schema1)
      r2 == read_nested_json_section(env, file_path, <<"components", "schemas">>)
      schema2 == IF second /\ r2.ok THEN r2.value ELSE Leaf("estr")
      error2 == IF second /\ ~r2.ok
                THEN Some(Diagnostic(service, "components/schemas", r2))
                ELSE None
      reads == IF second THEN << <<"definitions">>, <<"components", "schemas">> >>
               ELSE << <<"definitions">> >>
  IN IF Falsy(schema1) /\ Falsy(schema2)
     THEN [ok |-> FALSE, value |-> Leaf("null"), exc |-> "GitHubJsonReaderError",
           error1 |-> error2, error2 |-> error1, reads |-> reads]
     ELSE [ok |-> TRUE, value |-> IF ~Falsy(schema1) THEN schema1 ELSE schema2,
           exc |-> "", error1 |-> error2, error2 |-> error1, reads |-> reads]

\* get_service_schemas(owner, repo, service).  schema1, schema2, error1
\* and error2 start as ''; `reads` lists the section paths it asked
\* read_nested_json_section for, in order.
get_service_schemas(env, service) ==
  LET file_path == ContractPath(service)
      r1 == read_nested_json_section(env, file_path, <<"components", "schemas">>)
      schema1 == IF r1.ok THEN r1.value ELSE Leaf("estr")
      error1 == IF r1.ok THEN None
                ELSE Some(Diagnostic(service, "components/schemas", r1))
      second == Falsy(schema1)
      r2 == read_nested_json_section(env, file_path, <<"definitions">>)
      schema2 == IF second /\ r2.ok THEN r2.value ELSE Leaf("estr")
      error2 == IF second /\ ~r2.ok
                THEN Some(Diagnostic(service, "definitions", r2))
                ELSE None
      reads == IF second THEN << <<"components", "schemas">>, <<"definitions">> >>
               ELSE << <<"components", "schemas">> >>
  IN IF Falsy(schema1) /\ Falsy(schema2)
     THEN [ok |-> FALSE, value |-> Leaf("null"), exc |-> "GitHubJsonReaderError",
           error1 |-> error1, error2 |-> error2, reads |-> reads]
     ELSE [ok |-> TRUE, value |-> IF ~Falsy(schema1) THEN schema1 ELSE schema2,
           exc |-> "", error1 |-> error1, error2 |-> error2, reads |-> reads]

\* ---------------------------------------------- generate_dto_prompt, output

Warning(kind, name) == [kind |-> kind, schema |-> name]

\* "export interface <name> {}"
PlainDecl(name) ==
  <<"e", "x", "p", "o", "r", "t", " ", "i", "n", "t", "e", "r", "f", "a", "c", "e", " ">>
    \o Spelling(name) \o BracePair

\* Mutant of EmptyPlaceholder: the placeholder without its comment line.
EmptyPlaceholderBare(name) == PlainDecl(name)

\* The value returned for an empty answer.
EmptyPlaceholder(name) ==
  EmptyComment \o Spelling(name) \o EmptyDecl \o Spelling(name) \o BracePair

HasTypeKeyword(text) ==
  \E kw \in {KwInterface, KwEnum, KwType, KwClass} : Contains(text, kw)

\* Mutant of ExportStep: the type-keyword check as an `if` of its own, run
\* on the text the export repair left.
ExportStepBoth(text, name) ==
  LET a == IF ~Contains(text, KwExport)
           THEN [text |-> ExportPrefix \o text,
                 warns |-> <<Warning("export_missing", name)>>]
           ELSE [text |-> text, warns |-> <<>>]
  IN IF ~HasTypeKeyword(a.text)
     THEN [text |-> InvalidComment \o a.text,
           warns |-> Append(a.warns, Warning("not_a_type", name))]
     ELSE a

\* The elif chain after the empty check: the export repair, else the
\* type-keyword flag.
ExportStep(text, name) ==
  IF ~Contains(text, KwExport)
  THEN [text |-> ExportPrefix \o text,
        warns |-> <<Warning("export_missing", name)>>]
  ELSE IF ~HasTypeKeyword(text)
  THEN [text |-> InvalidComment \o text,
        warns |-> <<Warning("not_a_type", name)>>]
  ELSE [text |-> text, warns |-> <<>>]

\* Mutant of BraceStep: the brace check as one more `elif` of the chain,
\* skipped when an earlier branch fired.
BraceStepElif(r, name) ==
  IF r.warns = <<>> /\ Contains(r.text, KwInterface) /\ ~Contains(r.text, OpenBrace)
  THEN [text |-> RStrip(r.text) \o BracePair,
        warns |-> Append(r.warns, Warning("missing_braces", name))]
  ELSE r

\* The separate `if` on braces, applied to the outcome of ExportStep.
BraceStep(r, name) ==
  IF Contains(r.text, KwInterface) /\ ~Contains(r.text, OpenBrace)
  THEN [text |-> RStrip(r.text) \o BracePair,
        warns |-> Append(r.warns, Warning("missing_braces", name))]
  ELSE r

\* All of generate_dto_prompt after `await ctx.generate(prompt)`: the text
\* returned and the warnings sent with ctx.warn, in order.
PostProcess(generated_dto, name) ==
  IF Strip(generated_dto) = <<>>
  THEN [text |-> EmptyPlaceholder(name),
        warns |-> <<Warning("empty", name)>>]
  ELSE BraceStep(ExportStep(generated_dto, name), name)

\* -------------------------------------------- rest_api_taf_helper.py, tools

\* GitHub as the tools see it.  github_client.get_repo gives a Repository
\* for the repositories that exist and raises for any other name.
Owners == {"acme"}
RepoNames == {"api", "shop", "nowhere"}
Repository(owner, repo_name) ==
  [owner |-> owner, name |-> repo_name,
   default_branch |-> IF repo_name = "api" THEN "main" ELSE "develop"]
RepoExists(owner, repo_name) == owner = "acme" /\ repo_name \in {"api", "shop"}

\* Schema definitions are objects; their content only goes into the prompt.
SchemasOf(names) == ObjectOf([n \in names |-> EmptyObject])

\* The contract files under serviceContracts/ of the two repositories, by
\* service name.  No two files hold the same document.
ContractFile(repo_name, service) ==
  LET file(d) == [st |-> "file", doc |-> d]
      failure(f) == [st |-> f, doc |-> Leaf("null")]
  IN CASE repo_name = "api" /\ service = "petstore" ->
            file(ObjectOf([openapi |-> Leaf("str"),
                           components |-> ObjectOf([schemas |-> SchemasOf({"Pet", "Tag"})])]))
       [] repo_name = "api" /\ service = "orders" ->
            file(ObjectOf([swagger |-> Leaf("str"),
                           definitions |-> SchemasOf({"Order"})]))
       [] repo_name = "shop" /\ service = "petstore" ->
            file(ObjectOf([swagger |-> Leaf("str"),
                           definitions |-> SchemasOf({"Pet", "Order"})]))
       [] repo_name = "api" /\ service = "" ->
            file(ObjectOf([swagger |-> Leaf("str"),
                           definitions |-> SchemasOf({"Tag"})]))
       [] repo_name = "api" /\ service = "empty" ->
            file(ObjectOf([openapi |-> Leaf("str"),
                           components |-> ObjectOf([schemas |-> EmptyObject])]))
       [] repo_name = "api" /\ service = "noschemas" ->
            file(ObjectOf([openapi |-> Leaf("str"), info |-> EmptyObject]))
       [] repo_name = "api" /\ service = "nullcomponents" ->
            file(ObjectOf([openapi |-> Leaf("str"), components |-> Leaf("null")]))
       [] repo_name = "api" /\ service = "listdefinitions" ->
            file(ObjectOf([swagger |-> Leaf("str"), definitions |-> Leaf("earr")]))
       [] repo_name = "api" /\ service = "plain" ->
            file(ObjectOf([info |-> EmptyObject]))
       [] repo_name = "api" /\ service = "nulldoc" -> file(Leaf("null"))
       [] repo_name = "api" /\ service = "folder" -> failure("directory")
       [] repo_name = "api" /\ service = "binary" -> failure("bad_utf8")
       [] repo_name = "api" /\ service = "broken" -> failure("bad_json")
       [] OTHER -> failure("not_found")

ServiceNames ==
  {"petstore", "orders", "", "empty", "noschemas", "nullcomponents",
   "listdefinitions", "plain", "nulldoc", "folder", "binary", "broken", "missing"}

\* folder_path, as its names and slashes.
FolderPaths == { <<"serviceContracts">>, <<"serviceContracts", "/">> }

\* folder_path.rstrip('/')
RStripSlash(path) ==
  LET solid == {i \in 1..Len(path) : path[i] # "/"}
  IN IF solid = {} THEN <<>> ELSE SubSeq(path, 1, MaxOf(solid))

\* f"{folder_path.rstrip('/')}/{service_name}.json"
FullFilePath(folder_path, service) ==
  RStripSlash(folder_path) \o <<"/", service, ".json">>

\* app_ctx.repo.get_contents(full_file_path) and what decoding and parsing it
\* give.  On no repository (None) the attribute access raises.
GetContents(repo_opt, full_file_path) ==
  IF repo_opt = None THEN [st |-> "raised", doc |-> Leaf("null")]
  ELSE IF Len(full_file_path) = 4 /\ full_file_path[1] = "serviceContracts"
  THEN ContractFile(repo_opt[1].name, full_file_path[3])
  ELSE [st |-> "not_found", doc |-> Leaf("null")]

\* The order of schemas.items(): the order of the keys in the document.
NameOrder == <<"Pet", "Tag", "Order">>
IsMember(schemas, name) == <<name>> \in DOMAIN schemas
SchemaItems(schemas) == SelectSeq(NameOrder, LAMBDA n : IsMember(schemas, n))

\* A tool's return value: a message (its parts in order), or for
\* prepare_dto_for_push a record; outcome "raised" is an exception that
\* leaves the tool.
Ret(tool, outcome, text) ==
  [tool |-> tool, outcome |-> outcome, text |-> text, record |-> None]
NoRet == Ret("none", "ok", <<>>)

Out(ctx, ret) == [ctx |-> ctx, ret |-> ret]

\* connect_to_repo(ctx, owner, repo_name)
connect_to_repo(ctx, owner, repo_name) ==
  IF RepoExists(owner, repo_name)
  THEN Out([ctx EXCEPT !.repo = Some(Repository(owner, repo_name))],
           Ret("connect_to_repo", "ok", <<"Connected to ", owner, "/", repo_name>>))
  ELSE Out(ctx, Ret("connect_to_repo", "error", <<"Error: ", "UnknownObjectException">>))

\* Mutant of RepoMissing: the check of the repository left out.
RepoMissingUnchecked(ctx) == FALSE

\* `if not app_ctx.repo` of read_swagger_json and prepare_dto_for_push.
RepoMissing(ctx) == ctx.repo = None

\* `'swagger' in swagger_json or 'openapi' in swagger_json` on a dict.
IsSwaggerDefinition(doc) ==
  <<"swagger">> \in DOMAIN doc \/ <<"openapi">> \in DOMAIN doc

\* read_swagger_json from the retrieval of the file (line 97) to its return.
read_swagger_json_fetch(ctx, full_file_path, service) ==
  LET f == GetContents(ctx.repo, full_file_path)
      err(text) == Out(ctx, Ret("read_swagger_json", "error", text))
  IN CASE f.st \in {"raised", "not_found"} ->
            err(<<"Error: Could not retrieve file: ">> \o full_file_path)
       [] f.st = "directory" ->
            err(<<"Error: ">> \o full_file_path \o <<" is a directory, not a file">>)
       [] f.st = "bad_utf8" ->
            err(<<"Error: Unable to decode file content at ">> \o full_file_path)
       [] f.st = "bad_json" ->
            err(<<"Error: Invalid JSON in file ">> \o full_file_path)
       [] f.st = "file" /\ f.doc[<<>>] # "obj" ->
            \* the contract files hold a dict or null; `in` on None raises
            \* TypeError, which the outer handler catches
            err(<<"Error: Unexpected error - ", "TypeError">>)
       [] f.st = "file" /\ f.doc[<<>>] = "obj" /\ ~IsSwaggerDefinition(f.doc) ->
            err(<<"Error: Invalid Swagger/OpenAPI definition at ">> \o full_file_path)
       [] OTHER ->
            Out([ctx EXCEPT !.swagger_json = Some(f.doc),
                            !.service_name = Some(service)],
                Ret("read_swagger_json", "ok",
                    <<"Swagger JSON is successfully found and stored to context">>))

ErrNoRepository ==
  Ret("read_swagger_json", "error",
      <<"Error: No repository connected. Use connect_to_repo first.">>)

\* read_swagger_json(ctx, folder_path, service)
read_swagger_json(ctx, folder_path, service) ==
  IF RepoMissing(ctx) THEN Out(ctx, ErrNoRepository)
  ELSE read_swagger_json_fetch(ctx, FullFilePath(folder_path, service),
                               service)

\* `if not app_ctx.swagger_json`: None, or an empty document.
SwaggerMissing(ctx) == ctx.swagger_json = None \/ Falsy(ctx.swagger_json[1])

\* `if not app_ctx.service_name`: None or ''.
ServiceNameMissing(ctx) == ctx.service_name = None \/ ctx.service_name = Some("")

GenRet(outcome, text) == Ret("generate_typescript_dtos", outcome, text)
GenRaised(exception) ==
  GenRet("error", <<"Error generating TypeScript DTOs: ", exception>>)

\* generate_typescript_dtos up to the loop (lines 148-170): an error to
\* return, or the local swagger_json and the items of schemas.  `'schemas'
\* in x` is key membership on a dict, raises on null and on a number, and is
\* false on '' and [].
generate_begin(ctx) ==
  LET stop(ret) == [run |-> FALSE, ret |-> ret, swagger_json |-> Leaf("null"),
                    items |-> <<>>]
      doc == ctx.swagger_json[1]
      components == doc[<<"components">>]
      from(section) ==
        IF doc[section] = "obj"
        THEN [run |-> TRUE, ret |-> NoRet, swagger_json |-> doc,
              items |-> SchemaItems(Sub(doc, section))]
        ELSE stop(GenRaised("AttributeError"))
  IN IF SwaggerMissing(ctx)
     THEN stop(GenRet("error",
                 <<"Error: No swagger JSON read. Use read_swagger_json first.">>))
     ELSE IF ServiceNameMissing(ctx)
     THEN stop(GenRet("error",
                 <<"Error: No service name stored for flow. Use read_swagger_json first.">>))
     ELSE IF <<"components">> \in DOMAIN doc /\ components \in {"null", "zero"}
     THEN stop(GenRaised("TypeError"))
     ELSE IF <<"components">> \in DOMAIN doc /\ components = "obj"
             /\ <<"components", "schemas">> \in DOMAIN doc
     THEN from(<<"components", "schemas">>)
     ELSE IF <<"definitions">> \in DOMAIN doc
     THEN from(<<"definitions">>)
     ELSE stop(GenRet("error",
                 <<"Error: No schemas found in the Swagger/OpenAPI specification">>))

\* f"/src/models/{app_ctx.service_name}.model.ts"
ModelPath(service) == <<"/src/models/", service, ".model.ts">>
\* f"// Generated TypeScript DTOs for {app_ctx.service_name}\n\n"
ModuleHeader(service) ==
  <<"// Generated TypeScript DTOs for ", service, "\n\n">>

\* generate_typescript_dtos after the loop (lines 187-198).  The module is
\* its header and the contents joined by "\n", kept as their sequence; the
\* field `from` is not in the code: it records the document the schemas
\* were taken from.
generate_end(ctx, document, generated_dtos) ==
  LET file_path == ModelPath(ctx.service_name[1])
      typescript_module ==
        [header |-> ModuleHeader(ctx.service_name[1]),
         body |-> [i \in 1..Len(generated_dtos) |-> generated_dtos[i].content]]
  IN Out([ctx EXCEPT !.generated_typescript_dto =
                        Some([content |-> typescript_module, path |-> file_path,
                              from |-> document])],
         GenRet("ok", <<"Successfully generated TypeScript DTO module for further actions: ">>
                        \o file_path))

\* One turn of the loop: the answer of the backend post-processed
\* (generate_dto_prompt) and appended.
generate_step(generated_dtos, schema_name, answer) ==
  Append(generated_dtos,
         [name |-> schema_name, content |-> PostProcess(answer, schema_name).text])

RECURSIVE generate_loop(_, _, _, _)
generate_loop(items, answers, i, generated_dtos) ==
  IF i > Len(items) THEN generated_dtos
  ELSE generate_loop(items, answers, i + 1,
                     generate_step(generated_dtos, items[i], answers[i][1]))

\* generate_typescript_dtos(ctx), run without interruption.  answers[i] is
\* what ctx.generate gives for the i-th schema: Some(text), or None when it
\* raises.
generate_typescript_dtos(ctx, answers) ==
  LET b == generate_begin(ctx)
  IN IF ~b.run THEN Out(ctx, b.ret)
     ELSE IF \E i \in 1..Len(b.items) : answers[i] = None
     THEN Out(ctx, GenRaised("Exception"))
     ELSE generate_end(ctx, b.swagger_json,
                       generate_loop(b.items, answers, 1, <<>>))

\* The attributes inspect_context is asked for; None and '' ask for all.
Attributes ==
  {"github_client", "repo", "swagger_json", "service_name",
   "generated_typescript_dto", "unknown"}
Listed == <<"repo", "swagger_json", "service_name", "generated_typescript_dto">>

\* json.dumps of a value of the context: the Github client and a Repository
\* are not JSON serialisable.
Serialisable(attribute) ==
  attribute \in {"swagger_json", "service_name", "generated_typescript_dto"}

\* getattr(app_ctx, attribute) for a field of AppContext.
Field(ctx, attribute) ==
  CASE attribute = "github_client" -> Some("Github")
    [] attribute = "repo" -> ctx.repo
    [] attribute = "swagger_json" -> ctx.swagger_json
    [] attribute = "service_name" -> ctx.service_name
    [] attribute = "generated_typescript_dto" -> ctx.generated_typescript_dto

\* inspect_context(ctx, attribute)
inspect_context(ctx, attribute_opt) ==
  LET tool == "inspect_context"
  IN IF attribute_opt = None \/ attribute_opt = Some("")
     THEN Out(ctx, Ret(tool, "ok",
                       <<"json.dumps">> \o
                       SelectSeq(Listed, LAMBDA a : Field(ctx, a) # None)))
     ELSE LET attribute == attribute_opt[1]
          IN IF attribute = "unknown"
             THEN Out(ctx, Ret(tool, "error",
                               <<"Error: Attribute '", attribute, "' not found in context">>))
             ELSE IF Field(ctx, attribute) = None
             THEN Out(ctx, Ret(tool, "ok", <<"Attribute is None">>))
             ELSE IF Serialisable(attribute)
             THEN Out(ctx, Ret(tool, "ok", <<"json.dumps", attribute>>))
             ELSE Out(ctx, Ret(tool, "raised", <<"TypeError">>))

\* `if not app_ctx.generated_typescript_dto`
GeneratedMissing(ctx) == ctx.generated_typescript_dto = None

\* prepare_dto_for_push(ctx)
prepare_dto_for_push(ctx) ==
  LET tool == "prepare_dto_for_push"
  IN IF RepoMissing(ctx)
     THEN Out(ctx, Ret(tool, "error", <<"No repository connected">>))
     ELSE IF GeneratedMissing(ctx)
     THEN Out(ctx, Ret(tool, "error", <<"No generated DTO found">>))
     ELSE Out(ctx,
              [tool |-> tool, outcome |-> "ok", text |-> <<>>,
               record |-> Some(
                 [repo_full_name |-> <<ctx.repo[1].owner, "/", ctx.repo[1].name>>,
                  service_name |-> ctx.service_name,
                  file_path |-> ctx.generated_typescript_dto[1].path,
                  file_content |-> ctx.generated_typescript_dto[1].content,
                  default_branch |-> ctx.repo[1].default_branch])])

\* ------------------------------------------------------------------- state

VARIABLES
  repo,                      \* AppContext.repo: None or Some(Repository)
  swagger_json,              \* AppContext.swagger_json: None or Some(document)
  service_name,              \* AppContext.service_name: None or Some(name)
  generated_typescript_dto,  \* AppContext.generated_typescript_dto
  ret,     \* what the last tool call returned
  gen,     \* a generate_typescript_dtos call suspended in its loop: its locals
  rd,      \* a read_swagger_json call suspended at `await ctx.info`: its locals
  remote,  \* the environment of the schema lookup: the token and the contract file
  call,    \* one call of a function of github_utils.py: its arguments and outcome
  dto      \* one call of generate_dto_prompt: pc, schema_name, generated_dto, result

context == <<repo, swagger_json, service_name, generated_typescript_dto>>
session == <<repo, swagger_json, service_name, generated_typescript_dto, ret, gen, rd>>
vars == <<repo, swagger_json, service_name, generated_typescript_dto, ret, gen, rd,
          remote, call, dto>>

\* The AppContext as one value.
Ctx == [repo |-> repo, swagger_json |-> swagger_json, service_name |-> service_name,
        generated_typescript_dto |-> generated_typescript_dto]
\* The AppContext the lifespan creates: only github_client is set.
NewContext ==
  /\ repo = None
  /\ swagger_json = None
  /\ service_name = None
  /\ generated_typescript_dto = None

GenIdle == [pc |-> "idle", swagger_json |-> Leaf("null"), items |-> <<>>,
            generated_dtos |-> <<>>]
RdIdle == [pc |-> "idle", full_file_path |-> <<>>, service_name |-> ""]

SessionIdle ==
  /\ NewContext
  /\ ret = NoRet
  /\ gen = GenIdle
  /\ rd = RdIdle

NoRemote == [token |-> FALSE, file |-> [st |-> "not_found", doc |-> Leaf("null")]]
NoCall == [fn |-> "none"]
DtoIdle == [pc |-> "idle", schema_name |-> "", generated_dto |-> <<>>,
            text |-> <<>>, warns |-> <<>>]

\* ------------------------------ specification: the tools, one call at a time

\* What ctx.generate answers in a session: nothing, an interface without
\* export and braces, a clean type.
SessionAnswers ==
  { Some(<<>>), Some(KwInterface \o <<" ", "x", " ">>),
    Some(ExportPrefix \o KwType \o <<" ", "x">>), None }

Init ==
  /\ SessionIdle
  /\ remote = NoRemote
  /\ call = NoCall
  /\ dto = DtoIdle

\* The call returns: the context and the return value are as the tool left
\* them.
Return(out) ==
  /\ repo' = out.ctx.repo
  /\ swagger_json' = out.ctx.swagger_json
  /\ service_name' = out.ctx.service_name
  /\ generated_typescript_dto' = out.ctx.generated_typescript_dto
  /\ ret' = out.ret

ConnectToRepo ==
  /\ \E owner \in Owners, repo_name \in RepoNames :
       Return(connect_to_repo(Ctx, owner, repo_name))
  /\ UNCHANGED <<gen, rd, remote, call, dto>>

ReadSwaggerJson ==
  /\ \E folder_path \in FolderPaths, name \in ServiceNames :
       Return(read_swagger_json(Ctx, folder_path, name))
  /\ UNCHANGED <<gen, rd, remote, call, dto>>

GenerateTypescriptDtos ==
  /\ \E answers \in [1..Len(generate_begin(Ctx).items) -> SessionAnswers] :
       Return(generate_typescript_dtos(Ctx, answers))
  /\ UNCHANGED <<gen, rd, remote, call, dto>>

InspectContext ==
  /\ \E attribute \in {None, Some("")} \cup {Some(a) : a \in Attributes} :
       Return(inspect_context(Ctx, attribute))
  /\ UNCHANGED <<gen, rd, remote, call, dto>>

PrepareDtoForPush ==
  /\ Return(prepare_dto_for_push(Ctx))
  /\ UNCHANGED <<gen, rd, remote, call, dto>>

Next ==
  \/ ConnectToRepo
  \/ ReadSwaggerJson
  \/ GenerateTypescriptDtos
  \/ InspectContext
  \/ PrepareDtoForPush

Spec == Init /\ [][Next]_vars

\* ---------------------------------------------------- claims on the tools

\* What the tool called in a step must have returned, and left alone, when
\* the prerequisite it needs was unset before the call.  ret' is the return
\* value of the call made in the step.
FailsCleanly(text) ==
  /\ ret'.outcome = "error"
  /\ ret'.text = text
  /\ UNCHANGED context

\* C1: read_swagger_json without a repository, generate_typescript_dtos
\* without swagger_json or service_name, and prepare_dto_for_push without
\* repo or generated_typescript_dto each return an error that names what is
\* missing and leave every field of the context unchanged.
C1_PrerequisiteErrors ==
  [][ /\ (ret'.tool = "read_swagger_json" /\ repo = None) =>
           FailsCleanly(<<"Error: No repository connected. Use connect_to_repo first.">>)
      /\ (ret'.tool = "generate_typescript_dtos" /\ swagger_json = None) =>
           FailsCleanly(<<"Error: No swagger JSON read. Use read_swagger_json first.">>)
      /\ (ret'.tool = "generate_typescript_dtos" /\ swagger_json # None
            /\ service_name = None) =>
           FailsCleanly(<<"Error: No service name stored for flow. Use read_swagger_json first.">>)
      /\ (ret'.tool = "prepare_dto_for_push" /\ repo = None) =>
           FailsCleanly(<<"No repository connected">>)
      /\ (ret'.tool = "prepare_dto_for_push" /\ repo # None
            /\ generated_typescript_dto = None) =>
           FailsCleanly(<<"No generated DTO found">>)
    ]_vars

\* prepare_dto_for_push was refused in a half-filled context: a repository
\* and a Swagger document, and no generated module.
C1_Witness ==
  /\ ret.tool = "prepare_dto_for_push"
  /\ ret.outcome = "error"
  /\ ret.text = <<"No generated DTO found">>
  /\ repo # None
  /\ swagger_json # None
  /\ generated_typescript_dto = None

\* C2: every tool returns a success value or a descriptive error value for
\* every argument, inspect_context('repo') and
\* inspect_context('github_client') included: no exception leaves a tool.
C2_NoExceptionEscapes == ret.outcome # "raised"

\* C9: every record prepare_dto_for_push returns is self-consistent: its
\* file_path is '/src/models/<service_name>.model.ts' for its own
\* service_name, and its file_content was generated from the Swagger
\* document of that service in the repository of repo_full_name.
C9_SelfConsistentRecord ==
  (ret.tool = "prepare_dto_for_push" /\ ret.outcome = "ok") =>
    LET r == ret.record[1]
    IN /\ r.service_name # None
       /\ r.file_path = ModelPath(r.service_name[1])
       /\ r.file_content = generated_typescript_dto[1].content
       /\ ContractFile(r.repo_full_name[3], r.service_name[1]) =
            [st |-> "file", doc |-> generated_typescript_dto[1].from]

\* ------------------- specification: tool calls interleaved at their awaits

\* The host runs the tools as coroutines on one event loop: a call runs
\* without interruption from one await to the next.  read_swagger_json waits
\* at `await ctx.info` (line 95), generate_typescript_dtos at `await
\* generate_dto_prompt` in each turn of its loop (line 175); the code after
\* the last turn runs on with it.  connect_to_repo has no await.
ConcServices == {"petstore", "orders"}
ConcFolder == <<"serviceContracts">>

ConcConnect ==
  /\ \E owner \in Owners, repo_name \in RepoNames :
       Return(connect_to_repo(Ctx, owner, repo_name))
  /\ UNCHANGED <<gen, rd, remote, call, dto>>

\* read_swagger_json to its await: the check of the repository and the path.
ReadBegin ==
  /\ rd.pc = "idle"
  /\ \E name \in ConcServices :
       IF RepoMissing(Ctx)
       THEN /\ Return(Out(Ctx, ErrNoRepository))
            /\ UNCHANGED rd
       ELSE /\ rd' = [pc |-> "awaiting_info",
                      full_file_path |-> FullFilePath(ConcFolder, name),
                      service_name |-> name]
            /\ UNCHANGED <<context, ret>>
  /\ UNCHANGED <<gen, remote, call, dto>>

\* read_swagger_json from its await to its return.
ReadResume ==
  /\ rd.pc = "awaiting_info"
  /\ Return(read_swagger_json_fetch(Ctx, rd.full_file_path, rd.service_name))
  /\ rd' = RdIdle
  /\ UNCHANGED <<gen, remote, call, dto>>

\* generate_typescript_dtos to the first await of its loop, or to its return
\* when there is an error or no schema.
GenBegin ==
  /\ gen.pc = "idle"
  /\ LET b == generate_begin(Ctx)
     IN IF ~b.run
        THEN Return(Out(Ctx, b.ret)) /\ UNCHANGED gen
        ELSE IF b.items = <<>>
        THEN Return(generate_end(Ctx, b.swagger_json, <<>>)) /\ UNCHANGED gen
        ELSE /\ gen' = [pc |-> "loop", swagger_json |-> b.swagger_json,
                        items |-> b.items, generated_dtos |-> <<>>]
             /\ UNCHANGED <<context, ret>>
  /\ UNCHANGED <<rd, remote, call, dto>>

\* The awaited generate_dto_prompt returns or raises: one turn of the loop,
\* and after the last turn the rest of the handler.
GenResume ==
  /\ gen.pc = "loop"
  /\ \E answer \in SessionAnswers :
       LET schema_name == gen.items[Len(gen.generated_dtos) + 1]
       IN IF answer = None
          THEN Return(Out(Ctx, GenRaised("Exception"))) /\ gen' = GenIdle
          ELSE LET dtos == generate_step(gen.generated_dtos, schema_name, answer[1])
               IN IF Len(dtos) = Len(gen.items)
                  THEN /\ Return(generate_end(Ctx, gen.swagger_json, dtos))
                       /\ gen' = GenIdle
                  ELSE /\ gen' = [gen EXCEPT !.generated_dtos = dtos]
                       /\ UNCHANGED <<context, ret>>
  /\ UNCHANGED <<rd, remote, call, dto>>

ConcNext == ConcConnect \/ ReadBegin \/ ReadResume \/ GenBegin \/ GenResume

SpecConc == Init /\ [][ConcNext]_vars

\* ------------------------------------ claims on the interleaved tool calls

\* The module stored in the context is one service's: its header and path
\* name the service whose contract, in some repository, its DTOs were
\* generated from.
OneService(g) ==
  \E repo_name \in RepoNames, name \in ServiceNames :
    /\ g.path = ModelPath(name)
    /\ g.content.header = ModuleHeader(name)
    /\ ContractFile(repo_name, name) = [st |-> "file", doc |-> g.from]

\* C10: also when a read_swagger_json call for another service completes
\* while generate_typescript_dtos is suspended in its loop, the module it
\* stores has header, path and DTO contents of one and the same service.
C10_OneServicePerModule ==
  generated_typescript_dto # None => OneService(generated_typescript_dto[1])

\* --------------------------------------- specification: the schema lookup

SchemaInit ==
  /\ remote \in Remotes
  /\ call = NoCall
  /\ dto = DtoIdle
  /\ SessionIdle

\* A caller reads one section of a contract file.
ReadSection ==
  /\ call.fn = "none"
  /\ \E service \in Services, section_path \in SectionPaths :
       call' = [fn |-> "read_nested_json_section",
                service_name |-> service,
                section_path |-> section_path,
                result |-> read_nested_json_section(
                             remote, ContractPath(service), section_path)]
  /\ UNCHANGED <<remote, dto, session>>

\* A caller asks for the schemas of a service.
GetServiceSchemas ==
  /\ call.fn = "none"
  /\ \E service \in Services :
       call' = [fn |-> "get_service_schemas",
                service_name |-> service,
                section_path |-> <<>>,
                result |-> get_service_schemas(remote, service)]
  /\ UNCHANGED <<remote, dto, session>>

SchemaNext == ReadSection \/ GetServiceSchemas

SpecSchema == SchemaInit /\ [][SchemaNext]_vars

\* ------------------------------------------- claims on the schema lookup

\* The file the call was about, and whether it could be fetched and parsed.
CalledFile == Fetch(remote, ContractPath(call.service_name))
Readable == remote.token /\ CalledFile.st = "file"
PathComponentsSchemas == <<"components", "schemas">>
PathDefinitions == <<"definitions">>

\* The document has a non-empty value at path p.
NonEmptyAt(doc, p) == p \in DOMAIN doc /\ ~Falsy(Sub(doc, p))

FirstYields == Readable /\ NonEmptyAt(CalledFile.doc, PathComponentsSchemas)
SecondYields == Readable /\ NonEmptyAt(CalledFile.doc, PathDefinitions)

\* C3: get_service_schemas is first-match-wins in a fixed order: a non-empty
\* value at components/schemas is returned and definitions is not read; when
\* that read fails or gives an empty value, definitions is read on the same
\* file and its value, if non-empty, is returned.
C3_FirstMatchWins ==
  call.fn = "get_service_schemas" =>
    LET r == call.result
    IN /\ r.reads[1] = PathComponentsSchemas
       /\ FirstYields =>
            /\ r.ok
            /\ r.value = Sub(CalledFile.doc, PathComponentsSchemas)
            /\ r.reads = <<PathComponentsSchemas>>
       /\ ~FirstYields =>
            /\ r.reads = <<PathComponentsSchemas, PathDefinitions>>
            /\ SecondYields =>
                 r.ok /\ r.value = Sub(CalledFile.doc, PathDefinitions)

\* A document with definitions and no components gave its definitions.
C3_Witness ==
  /\ call.fn = "get_service_schemas"
  /\ Readable
  /\ <<"components">> \notin DOMAIN CalledFile.doc
  /\ SecondYields
  /\ call.result.ok
  /\ call.result.value = Sub(CalledFile.doc, PathDefinitions)

\* C4: when neither attempt yields a non-empty fragment (each raising or
\* returning an empty value), get_service_schemas fails, and its message
\* carries a diagnostic for the components/schemas attempt and one for the
\* definitions attempt.
C4_BothDiagnostics ==
  (call.fn = "get_service_schemas" /\ ~FirstYields /\ ~SecondYields) =>
    /\ ~call.result.ok
    /\ call.result.error1 # None
    /\ call.result.error2 # None

\* Where following section_path key by key breaks at its i-th key: the value
\* reached so far is not a dict, or the key is absent from it, or the value
\* under the key is null.
BrokenAt(doc, section_path, i) ==
  LET current == SubSeq(section_path, 1, i - 1)
      next == SubSeq(section_path, 1, i)
  IN \/ current \notin DOMAIN doc
     \/ doc[current] # "obj"
     \/ next \notin DOMAIN doc
     \/ doc[next] = "null"

\* The same, with an empty value under the key counted as a break too.
BrokenOrEmptyAt(doc, section_path, i) ==
  \/ BrokenAt(doc, section_path, i)
  \/ Falsy(Sub(doc, SubSeq(section_path, 1, i)))

\* What the call of read_nested_json_section must have given when the keys
\* in `breaks` are those where navigation breaks.
NavigationOutcome(breaks) ==
  LET r == call.result
      doc == CalledFile.doc
      section_path == call.section_path
  IN IF breaks = {}
     THEN r.ok /\ r.value = Sub(doc, section_path)
     ELSE LET i == MinOf(breaks)
          IN /\ ~r.ok
             /\ r.error.key = section_path[i]
             /\ r.error.at = i
             /\ r.error.section_path = section_path

\* C5 as stated: the navigation returns the value after all of section_path,
\* or fails naming the first key at which the current value is not a dict,
\* the key is absent, or the value under it is null or empty.
C5_AsStated ==
  (call.fn = "read_nested_json_section" /\ Readable) =>
    NavigationOutcome({i \in 1..Len(call.section_path) :
                         BrokenOrEmptyAt(CalledFile.doc, call.section_path, i)})

\* C5 as amended: the navigation returns the value after all of
\* section_path, or fails naming the first key at which the current value is
\* not a dict, the key is absent, or the value under it is null; an empty
\* value that is not null does not break it.
C5_Navigation ==
  (call.fn = "read_nested_json_section" /\ Readable) =>
    LET doc == CalledFile.doc
        breaks == {i \in 1..Len(call.section_path) :
                     BrokenAt(doc, call.section_path, i)}
    IN /\ NavigationOutcome(breaks)
       /\ breaks # {} =>
            call.result.error.cause =
              IF doc[SubSeq(call.section_path, 1, MinOf(breaks) - 1)] # "obj"
              THEN "not_a_dictionary" ELSE "section_not_found"

\* A two-key path led to an empty value, which was returned.
C5_Witness ==
  /\ call.fn = "read_nested_json_section"
  /\ Readable
  /\ Len(call.section_path) = 2
  /\ call.result.ok
  /\ Falsy(call.result.value)

\* ------------------------------------------- specification: one prompt call

DtoInit ==
  /\ dto = DtoIdle
  /\ remote = NoRemote
  /\ call = NoCall
  /\ SessionIdle

\* generate_dto_prompt(ctx, schema_name, schema_def) up to the answer of
\* `await ctx.generate(prompt)`.
DtoGenerate ==
  /\ dto.pc = "idle"
  /\ \E name \in SchemaNames, answer \in GeneratedTexts :
       dto' = [pc |-> "generated", schema_name |-> name,
               generated_dto |-> answer, text |-> <<>>, warns |-> <<>>]
  /\ UNCHANGED <<remote, call, session>>

\* The checks and repairs, to the return.
DtoReturn ==
  /\ dto.pc = "generated"
  /\ LET r == PostProcess(dto.generated_dto, dto.schema_name)
     IN dto' = [dto EXCEPT !.pc = "done", !.text = r.text, !.warns = r.warns]
  /\ UNCHANGED <<remote, call, session>>

DtoNext == DtoGenerate \/ DtoReturn

SpecDto == DtoInit /\ [][DtoNext]_vars

\* --------------------------------------------- claims on generate_dto_prompt

DtoDone == dto.pc = "done"
DtoEmptyAnswer == Strip(dto.generated_dto) = <<>>
WarnKinds == {dto.warns[i].kind : i \in 1..Len(dto.warns)}

\* C6 as stated: an answer that is empty after trimming gives exactly one
\* warning, the empty-content one, and exactly the text
\* "export interface <name> {}".
C6_AsStated ==
  (DtoDone /\ DtoEmptyAnswer) =>
    /\ dto.warns = <<Warning("empty", dto.schema_name)>>
    /\ dto.text = PlainDecl(dto.schema_name)

\* C6 as amended: an answer that is empty after trimming gives exactly one
\* warning, the empty-content one, and the text
\* "// Warning: Empty content for <name>\nexport interface <name> {}"; the
\* export, type-keyword and brace checks add no warning.
C6_EmptyAnswer ==
  (DtoDone /\ DtoEmptyAnswer) =>
    /\ dto.warns = <<Warning("empty", dto.schema_name)>>
    /\ dto.text = EmptyComment \o Spelling(dto.schema_name) \o <<"\n">>
                    \o PlainDecl(dto.schema_name)

\* A whitespace-only answer has gone through the post-processing.
C6_Witness ==
  DtoDone /\ DtoEmptyAnswer /\ Len(dto.generated_dto) > 1

\* C7: for a non-empty answer, a text without "export" gets the
\* export-missing warning and "export " in front and is not checked for a
\* type keyword; the keyword warning and its comment line go only to a text
\* that has "export" and none of interface, enum, type, class, and that text
\* is otherwise unchanged; the two warnings never come together.
C7_ExportElseKeyword ==
  (DtoDone /\ ~DtoEmptyAnswer) =>
    LET raw == dto.generated_dto
        repaired == ExportPrefix \o raw
    IN /\ ~Contains(raw, KwExport) =>
            /\ dto.warns[1] = Warning("export_missing", dto.schema_name)
            /\ "not_a_type" \notin WarnKinds
            /\ dto.text \in {repaired, RStrip(repaired) \o BracePair}
       /\ Contains(raw, KwExport) => "export_missing" \notin WarnKinds
       /\ "not_a_type" \in WarnKinds <=>
            (Contains(raw, KwExport) /\ ~HasTypeKeyword(raw))
       /\ "not_a_type" \in WarnKinds =>
            /\ dto.warns = <<Warning("not_a_type", dto.schema_name)>>
            /\ dto.text = InvalidComment \o raw
       /\ ~("export_missing" \in WarnKinds /\ "not_a_type" \in WarnKinds)

\* A text with neither "export" nor a type keyword was repaired, not flagged.
C7_Witness ==
  /\ DtoDone /\ ~DtoEmptyAnswer
  /\ ~Contains(dto.generated_dto, KwExport)
  /\ ~HasTypeKeyword(dto.generated_dto)
  /\ dto.warns = <<Warning("export_missing", dto.schema_name)>>

\* C8: for a non-empty answer the brace check runs after the export/keyword
\* step whether or not that step fired: a text with "interface" and no "{"
\* gets the missing-braces warning and " {}" after its right-trimmed text
\* (with the export repair too when "export" was missing: two warnings), any
\* other text gets no brace warning; and every text returned that contains
\* "interface" contains "{".
C8_BraceCheck ==
  /\ (DtoDone /\ ~DtoEmptyAnswer) =>
       LET raw == dto.generated_dto
           needs == Contains(raw, KwInterface) /\ ~Contains(raw, OpenBrace)
           before == IF Contains(raw, KwExport) THEN raw ELSE ExportPrefix \o raw
       IN /\ "missing_braces" \in WarnKinds <=> needs
          /\ needs =>
               /\ dto.text = RStrip(before) \o BracePair
               /\ dto.warns[Len(dto.warns)] = Warning("missing_braces", dto.schema_name)
               /\ Len(dto.warns) = IF Contains(raw, KwExport) THEN 1 ELSE 2
  /\ DtoDone => (Contains(dto.text, KwInterface) => Contains(dto.text, OpenBrace))

\* One text got the export repair and then the brace repair, which trimmed it.
C8_Witness ==
  /\ DtoDone
  /\ Len(dto.warns) = 2
  /\ dto.warns[1].kind = "export_missing"
  /\ dto.warns[2].kind = "missing_braces"
  /\ RStrip(dto.generated_dto) # dto.generated_dto

=============================================================================
